---- MODULE Spec2Model ----
(***************************************************************************)
(* Model of the streaming engine of monitoring_pipeline.py                 *)
(* (PathwaySimulator) together with the producer of data_stream.py that    *)
(* feeds its input log.                                                    *)
(*                                                                         *)
(* The input log is a sequence of tokens.  A record line is written as     *)
(*      <<body, "}", "\n">>                                                *)
(* where the token body stands for the text of a JSON object up to, but    *)
(* not including, its closing brace.  A JSON text is complete only with    *)
(* its closing brace, so every proper prefix of a record line is           *)
(* unparseable, as it is for json.loads.                                   *)
(***************************************************************************)
EXTENDS Integers, Sequences, FiniteSets, TLC

\* Number of lines the producer writes in one behaviour.
MaxWrites == 3
\* Number of times the producer is started anew (it deletes the input log).
MaxRestarts == 1
MaxRuns == 2
Margin == 1
MaxApply == 2

----------------------------------------------------------------------------
(* JSON values.  A number is kept as its floor w and a flag f telling      *)
(* whether it has a fractional part, which decides every comparison with   *)
(* an integer threshold exactly.                                           *)

Num(w, f) == [k |-> "num", w |-> w, f |-> f, s |-> ""]
Str(s) == [k |-> "str", w |-> 0, f |-> FALSE, s |-> s]

LB == "\n"
CLOSE == "}"
SPACE == " "

\* Bodies of JSON objects the input log may hold.
Bodies == {"r1", "r2", "rmiss", "rbad"}

\* The object a body denotes once its closing brace is read.
BodyRow(b) ==
  CASE b = "r1" -> [timestamp |-> Str("T1"), aqi |-> Num(200, FALSE),
                    temperature_c |-> Num(42, FALSE), humidity_pct |-> Num(90, FALSE),
                    sensor_id |-> Str("S1")]
    [] b = "r2" -> [timestamp |-> Str("T2"), aqi |-> Num(50, FALSE),
                    temperature_c |-> Num(35, TRUE), humidity_pct |-> Num(40, FALSE),
                    sensor_id |-> Str("S2")]
    [] b = "rmiss" -> [timestamp |-> Str("T3"),
                       temperature_c |-> Num(20, FALSE), humidity_pct |-> Num(30, FALSE)]
    [] b = "rbad" -> [timestamp |-> Str("T4"), aqi |-> Str("abc"),
                      temperature_c |-> Num(20, FALSE), humidity_pct |-> Num(30, FALSE),
                      sensor_id |-> Str("S1")]

\* A JSON text that is a value but not an object (the number 7).
SCALAR == "7"
\* Text that is no JSON at all ("{not json").
GARBAGE == "{x"

RecordLine(b) == <<b, CLOSE, LB>>
ScalarLine == <<SCALAR, LB>>
GarbageLine == <<GARBAGE, LB>>

\* Bodies of complete RawReadings: all five fields, the numeric ones numeric.
WellFormedBodies == {"r1", "r2"}
\* Whole lines that are a RawReading or no JSON at all.
CleanLines == {RecordLine(b) : b \in WellFormedBodies} \cup {GarbageLine}
\* Every line the input log may receive.
AllLines == {RecordLine(b) : b \in Bodies} \cup {ScalarLine, GarbageLine}

----------------------------------------------------------------------------
(* Classifier: monitoring_pipeline.py lines 47-73.                         *)

\* v > n for a number v = (floor w, fractional flag f) and an integer n.
Gt(v, n) == v.w > n \/ (v.w = n /\ v.f)

detect_aqi_risk(aqi) ==
  IF Gt(aqi, 150) THEN "UNSAFE AIR - Avoid outdoor activity"
  ELSE IF Gt(aqi, 100) THEN "MODERATE - Sensitive groups should be cautious"
  ELSE "GOOD - Air quality is safe"

\* Variant: v >= n.
Ge(v, n) == v.w >= n

\* Variant: thresholds that include the value equal to them.
detect_temp_risk_ge(temp) ==
  IF Ge(temp, 40) THEN "HEAT RISK - Stay hydrated, avoid direct sun"
  ELSE IF Ge(temp, 35) THEN "WARM - Drink water regularly"
  ELSE "NORMAL - Temperature is comfortable"

detect_temp_risk(temp) ==
  IF Gt(temp, 40) THEN "HEAT RISK - Stay hydrated, avoid direct sun"
  ELSE IF Gt(temp, 35) THEN "WARM - Drink water regularly"
  ELSE "NORMAL - Temperature is comfortable"

detect_humidity_risk(humidity) ==
  IF Gt(humidity, 80) THEN "HIGH MOISTURE ALERT - Risk of mold, heat stress"
  ELSE IF Gt(humidity, 60) THEN "ELEVATED - Monitor for discomfort"
  ELSE "NORMAL - Humidity is comfortable"

\* Variant: the humidity is left out of the overall status.
compute_overall_status_noHumidity(aqi, temp, humidity) ==
  IF Gt(aqi, 150) \/ Gt(temp, 40) THEN "UNSAFE"
  ELSE IF Gt(aqi, 100) \/ Gt(temp, 35) THEN "CAUTION"
  ELSE "SAFE"

compute_overall_status(aqi, temp, humidity) ==
  IF Gt(aqi, 150) \/ Gt(temp, 40) \/ Gt(humidity, 80) THEN "UNSAFE"
  ELSE IF Gt(aqi, 100) \/ Gt(temp, 35) \/ Gt(humidity, 60) THEN "CAUTION"
  ELSE "SAFE"

----------------------------------------------------------------------------
(* Dashboard: dashboard.py lines 438-448 and 473-486.                      *)

\* Variant: thresholds that include the value equal to them.
get_risk_level_ge(aqi, temp, humid) ==
  IF Ge(aqi, 150) \/ Ge(temp, 40) \/ Ge(humid, 80) THEN "danger"
  ELSE IF Ge(aqi, 100) \/ Ge(temp, 35) \/ Ge(humid, 60) THEN "warn"
  ELSE "safe"

get_risk_level(aqi, temp, humid) ==
  IF Gt(aqi, 150) \/ Gt(temp, 40) \/ Gt(humid, 80) THEN "danger"
  ELSE IF Gt(aqi, 100) \/ Gt(temp, 35) \/ Gt(humid, 60) THEN "warn"
  ELSE "safe"

aqi_badge(aqi) ==
  IF Gt(aqi, 150) THEN <<"sub-danger", "UNSAFE AIR">>
  ELSE IF Gt(aqi, 100) THEN <<"sub-warn", "MODERATE">>
  ELSE <<"sub-safe", "GOOD">>

temp_badge(temp) ==
  IF Gt(temp, 40) THEN <<"sub-danger", "HEAT RISK">>
  ELSE IF Gt(temp, 35) THEN <<"sub-warn", "WARM">>
  ELSE <<"sub-safe", "NORMAL">>

humid_badge(humid) ==
  IF Gt(humid, 80) THEN <<"sub-danger", "HIGH MOISTURE">>
  ELSE IF Gt(humid, 60) THEN <<"sub-warn", "ELEVATED">>
  ELSE <<"sub-safe", "NORMAL">>

\* One alert: its type, the dimension its icon stands for, and the fixed
\* part of its title.
Alert(type, about, title) == [type |-> type, about |-> about, title |-> title]

\* Variant: the humidity alert is a danger from 80 on.
build_alerts_ge(aqi, temp, humid) ==
  LET found ==
        (IF Gt(aqi, 150) THEN <<Alert("danger", "aqi", "UNSAFE AIR QUALITY")>>
         ELSE IF Gt(aqi, 100) THEN <<Alert("warn", "aqi", "MODERATE AIR QUALITY")>>
         ELSE <<>>)
        \o (IF Gt(temp, 40) THEN <<Alert("danger", "temp", "EXTREME HEAT RISK")>>
            ELSE IF Gt(temp, 35) THEN <<Alert("warn", "temp", "ELEVATED TEMPERATURE")>>
            ELSE <<>>)
        \o (IF Ge(humid, 80) THEN <<Alert("danger", "humid", "HIGH MOISTURE ALERT")>>
            ELSE IF Gt(humid, 60) THEN <<Alert("warn", "humid", "ELEVATED HUMIDITY")>>
            ELSE <<>>)
  IN IF found = <<>> THEN <<Alert("safe", "all", "ALL CLEAR")>> ELSE found

\* dashboard.py lines 489-529
build_alerts(aqi, temp, humid) ==
  LET found ==
        (IF Gt(aqi, 150) THEN <<Alert("danger", "aqi", "UNSAFE AIR QUALITY")>>
         ELSE IF Gt(aqi, 100) THEN <<Alert("warn", "aqi", "MODERATE AIR QUALITY")>>
         ELSE <<>>)
        \o (IF Gt(temp, 40) THEN <<Alert("danger", "temp", "EXTREME HEAT RISK")>>
            ELSE IF Gt(temp, 35) THEN <<Alert("warn", "temp", "ELEVATED TEMPERATURE")>>
            ELSE <<>>)
        \o (IF Gt(humid, 80) THEN <<Alert("danger", "humid", "HIGH MOISTURE ALERT")>>
            ELSE IF Gt(humid, 60) THEN <<Alert("warn", "humid", "ELEVATED HUMIDITY")>>
            ELSE <<>>)
  IN IF found = <<>> THEN <<Alert("safe", "all", "ALL CLEAR")>> ELSE found

----------------------------------------------------------------------------
(* Record transformer: monitoring_pipeline.py lines 103-118.               *)

\* row.get(key, default)
Get(row, key, default) == IF key \in DOMAIN row THEN row[key] ELSE default

\* Variant: every value passes for a number.
Coercible_any(v) == TRUE

\* int(v) and float(v) raise for a value that is not numeric.
Coercible(v) == v.k = "num"
\* int(v) truncates toward zero.
ToInt(v) == IF v.w < 0 /\ v.f THEN Num(v.w + 1, FALSE) ELSE Num(v.w, FALSE)
ToFloat(v) == v

\* TRUE when _transform_row(row) returns, FALSE when it raises.
TransformOk(row) ==
  /\ Coercible(Get(row, "aqi", Num(0, FALSE)))
  /\ Coercible(Get(row, "temperature_c", Num(0, FALSE)))
  /\ Coercible(Get(row, "humidity_pct", Num(0, FALSE)))

\* Variant: a missing timestamp is replaced by the time of processing.
_transform_row_now(row) ==
  LET aqi == ToInt(Get(row, "aqi", Num(0, FALSE)))
      temp == ToFloat(Get(row, "temperature_c", Num(0, FALSE)))
      humid == ToInt(Get(row, "humidity_pct", Num(0, FALSE)))
  IN [timestamp |-> Get(row, "timestamp", Str("NOW")),
      sensor_id |-> Get(row, "sensor_id", Str("UNKNOWN")),
      aqi |-> aqi,
      temperature_c |-> temp,
      humidity_pct |-> humid,
      aqi_status |-> detect_aqi_risk(aqi),
      temp_status |-> detect_temp_risk(temp),
      humidity_status |-> detect_humidity_risk(humid),
      overall_status |-> compute_overall_status(aqi, temp, humid)]

\* Variant: the AQI advisory is computed from the temperature.
_transform_row_wrongArg(row) ==
  LET aqi == ToInt(Get(row, "aqi", Num(0, FALSE)))
      temp == ToFloat(Get(row, "temperature_c", Num(0, FALSE)))
      humid == ToInt(Get(row, "humidity_pct", Num(0, FALSE)))
  IN [timestamp |-> Get(row, "timestamp", Str("")),
      sensor_id |-> Get(row, "sensor_id", Str("UNKNOWN")),
      aqi |-> aqi,
      temperature_c |-> temp,
      humidity_pct |-> humid,
      aqi_status |-> detect_aqi_risk(temp),
      temp_status |-> detect_temp_risk(temp),
      humidity_status |-> detect_humidity_risk(humid),
      overall_status |-> compute_overall_status(aqi, temp, humid)]

_transform_row(row) ==
  LET aqi == ToInt(Get(row, "aqi", Num(0, FALSE)))
      temp == ToFloat(Get(row, "temperature_c", Num(0, FALSE)))
      humid == ToInt(Get(row, "humidity_pct", Num(0, FALSE)))
  IN [timestamp |-> Get(row, "timestamp", Str("")),
      sensor_id |-> Get(row, "sensor_id", Str("UNKNOWN")),
      aqi |-> aqi,
      temperature_c |-> temp,
      humidity_pct |-> humid,
      aqi_status |-> detect_aqi_risk(aqi),
      temp_status |-> detect_temp_risk(temp),
      humidity_status |-> detect_humidity_risk(humid),
      overall_status |-> compute_overall_status(aqi, temp, humid)]

----------------------------------------------------------------------------
(* Text helpers used by run(): readlines, strip, json.loads.               *)

RECURSIVE SplitLines(_, _)
\* f.readlines() over the text `rest`, `cur` being the line under way: one
\* entry per line, each keeping its line break; text after the last line
\* break is returned as a last entry of its own.
SplitLines(rest, cur) ==
  IF rest = <<>> THEN (IF cur = <<>> THEN <<>> ELSE <<cur>>)
  ELSE IF Head(rest) = LB
       THEN <<Append(cur, LB)>> \o SplitLines(Tail(rest), <<>>)
       ELSE SplitLines(Tail(rest), Append(cur, Head(rest)))

\* Variant: the seek lands one byte too far.
TextFrom_skipByte(log, off) ==
  IF off + 1 >= Len(log) THEN <<>> ELSE SubSeq(log, off + 2, Len(log))

\* The text of `log` from byte offset `off` on (empty at or past the end).
\* Variant: with nothing new the file is read again from its start.
TextFrom_rewind(log, off) ==
  IF off >= Len(log) THEN log ELSE SubSeq(log, off + 1, Len(log))

TextFrom(log, off) == IF off >= Len(log) THEN <<>> ELSE SubSeq(log, off + 1, Len(log))

\* Variant: the lines come back last first.
readlines_reversed(log, off) ==
  LET ls == SplitLines(TextFrom(log, off), <<>>)
  IN [i \in 1..Len(ls) |-> ls[Len(ls) + 1 - i]]

\* Variant: the last line read is held back for the next poll.
readlines_holdLast(log, off) ==
  LET ls == SplitLines(TextFrom(log, off), <<>>)
  IN IF ls = <<>> THEN <<>> ELSE SubSeq(ls, 1, Len(ls) - 1)

readlines(log, off) == SplitLines(TextFrom(log, off), <<>>)

\* Variant: the position is the size of the file.
tell_clamped(log, off) == Len(log)

\* Variant: the position is not moved by the read.
tell_stale(log, off) == off

\* f.tell() after readlines(): the end of the file, or the seek position
\* when that lies past the end.
tell(log, off) == IF off >= Len(log) THEN off ELSE Len(log)

IsSpace(t) == t \in {LB, SPACE}

\* str.strip(): the text from its first to its last token that is no
\* whitespace.
strip(s) ==
  LET keep == {i \in 1..Len(s) : ~IsSpace(s[i])}
  IN IF keep = {} THEN <<>>
     ELSE SubSeq(s, CHOOSE i \in keep : \A j \in keep : i <= j,
                    CHOOSE i \in keep : \A j \in keep : i >= j)

\* json.loads(text): "object" with its row, "scalar", or "error"
\* (json.JSONDecodeError).
\* Whitespace around the value is accepted.
json_loads(text) ==
  LET t == strip(text)
  IN IF Len(t) = 2 /\ t[1] \in Bodies /\ t[2] = CLOSE
       THEN [kind |-> "object", body |-> t[1]]
     ELSE IF t = <<SCALAR>> THEN [kind |-> "scalar", body |-> ""]
     ELSE [kind |-> "error", body |-> ""]

\* Variant: the report ends the for loop.
RestAfterSkip_break(lines) == <<>>

\* lines 152-153: after the report the for loop goes on with the next line.
RestAfterSkip(lines) == Tail(lines)

\* The text of the output log is a sequence of tokens as well: the text of
\* an enriched record is the record and its closing brace.
OUT_CLOSE == [close |-> TRUE]
OUT_LB == [lb |-> TRUE]

\* json.dumps(enriched)
json_dumps(enriched) == <<enriched, OUT_CLOSE>>

\* A write of the record without its line break.
written_text_noBreak(enriched) == json_dumps(enriched)

\* line 144: what the one out.write() call of the with block of line 143
\* hands to the file, which the end of the with block flushes and closes.
written_text(enriched) == json_dumps(enriched) \o <<OUT_LB>>

----------------------------------------------------------------------------
VARIABLES
  input_exists,        \* os.path.exists(INPUT_FILE)
  input_log,           \* content of the input log
  pending,             \* rest of a line the producer has written in part
  written,             \* lines the producer has started to write
  restarts,            \* times the producer was started anew
  stop_requested,      \* somebody has asked the engine to stop
  pc,                  \* position of run()
  _file_offset,        \* self._file_offset
  f_pos,               \* position of the file object f after readlines()
  new_lines,           \* new_lines, the lines of this poll not yet processed
  row_count,           \* row_count
  output_log,          \* content of the output log, one entry per line
  output_file,         \* the text of the output log, as a reader finds it
  malformed,           \* the lines reported as "Skipped malformed line"
  handed,              \* every line a poll has returned, in order
  engine_runs,         \* times the engine has been started
  classify_in,         \* the (aqi, temp, humidity) handed to the classifiers
  classify_out,        \* what the classifiers have returned for classify_in
  row_in,              \* a raw row handed to _transform_row
  row_out,             \* what the calls of _transform_row(row_in) have returned
  loaded,              \* the dashboard has run main() over the output log
  df,                  \* the table load_data() has returned to main()
  latest               \* the row main() shows as the current reading, if any

vars == <<input_exists, input_log, pending, written, restarts, stop_requested,
          pc, _file_offset, f_pos, new_lines, row_count, output_log,
          output_file, malformed, handed, engine_runs, classify_in,
          classify_out, row_in, row_out, loaded, df, latest>>

\* What the surroundings of the engine change.
producer_vars == <<input_exists, input_log, pending, written, restarts,
                   stop_requested>>
classifier_vars == <<classify_in, classify_out, row_in, row_out>>
dashboard_vars == <<loaded, df, latest>>
engine_vars == <<pc, _file_offset, f_pos, new_lines, row_count, output_log,
                 output_file, malformed, handed, engine_runs>>

\* No classifier has been applied.
NotApplied ==
  [aqi_status |-> "", temp_status |-> "", humidity_status |-> "",
   overall_status |-> "", risk_level |-> "", aqi_badge |-> <<>>,
   temp_badge |-> <<>>, humid_badge |-> <<>>, alerts |-> <<>>]

\* State after PathwaySimulator.__init__: offset 0, no output log.
InitPipeline ==
  /\ input_exists = FALSE
  /\ input_log = <<>>
  /\ pending = <<>>
  /\ written = 0
  /\ restarts = 0
  /\ stop_requested = FALSE
  /\ pc = "exists"
  /\ _file_offset = 0
  /\ f_pos = 0
  /\ new_lines = <<>>
  /\ row_count = 0
  /\ output_log = <<>>
  /\ output_file = <<>>
  /\ malformed = <<>>
  /\ handed = <<>>
  /\ engine_runs = 1

\* The dashboard has not looked at the output log.
InitDashboard ==
  /\ loaded = FALSE
  /\ df = <<>>
  /\ latest = <<>>

\* No function is being applied on its own.
InitFunctions ==
  /\ InitDashboard
  /\ classify_in = [aqi |-> Num(0, FALSE), temp |-> Num(0, FALSE), humid |-> Num(0, FALSE)]
  /\ classify_out = NotApplied
  /\ row_in = [timestamp |-> Str("")]
  /\ row_out = <<>>

Init ==
  /\ InitPipeline
  /\ InitFunctions

----------------------------------------------------------------------------
(* Producer: data_stream.py run_data_stream.                               *)

\* open(OUTPUT_FILE, "a"); f.write(line): the whole line in one write.
ProducerAppend(line) ==
  /\ pending = <<>>
  /\ written < MaxWrites
  /\ input_exists' = TRUE
  /\ input_log' = input_log \o line
  /\ written' = written + 1
  /\ UNCHANGED <<pending, restarts, stop_requested>>
  /\ UNCHANGED engine_vars
  /\ UNCHANGED classifier_vars
  /\ UNCHANGED dashboard_vars

\* The line reaches the file in two pieces: its first k tokens now.
ProducerAppendPart(line, k) ==
  /\ pending = <<>>
  /\ written < MaxWrites
  /\ k \in 1..(Len(line) - 1)
  /\ input_exists' = TRUE
  /\ input_log' = input_log \o SubSeq(line, 1, k)
  /\ pending' = SubSeq(line, k + 1, Len(line))
  /\ written' = written + 1
  /\ UNCHANGED <<restarts, stop_requested>>
  /\ UNCHANGED engine_vars
  /\ UNCHANGED classifier_vars
  /\ UNCHANGED dashboard_vars

\* ... and the rest of it later.
ProducerAppendRest ==
  /\ pending /= <<>>
  /\ input_exists' = TRUE
  /\ input_log' = input_log \o pending
  /\ pending' = <<>>
  /\ UNCHANGED <<written, restarts, stop_requested>>
  /\ UNCHANGED engine_vars
  /\ UNCHANGED classifier_vars
  /\ UNCHANGED dashboard_vars

\* A new start of the producer: os.remove(OUTPUT_FILE) when it exists.
ProducerRestart ==
  /\ pending = <<>>
  /\ restarts < MaxRestarts
  /\ input_exists
  /\ input_exists' = FALSE
  /\ input_log' = <<>>
  /\ restarts' = restarts + 1
  /\ UNCHANGED <<pending, written, stop_requested>>
  /\ UNCHANGED engine_vars
  /\ UNCHANGED classifier_vars
  /\ UNCHANGED dashboard_vars

\* Somebody asks the engine to stop. run() has no parameter, attribute or
\* handler through which the request could reach it.
RaiseStop ==
  /\ ~stop_requested
  /\ stop_requested' = TRUE
  /\ UNCHANGED <<input_exists, input_log, pending, written, restarts>>
  /\ UNCHANGED engine_vars
  /\ UNCHANGED classifier_vars
  /\ UNCHANGED dashboard_vars

----------------------------------------------------------------------------
(* Engine: PathwaySimulator.run, monitoring_pipeline.py lines 120-155.     *)

\* A run() in which a missing input file were an error.
EngineWait_raise ==
  /\ pc = "exists"
  /\ ~input_exists
  /\ pc' = "crashed"
  /\ UNCHANGED <<_file_offset, f_pos, new_lines, row_count, output_log,
                 output_file, malformed, handed, engine_runs>>
  /\ UNCHANGED producer_vars
  /\ UNCHANGED classifier_vars
  /\ UNCHANGED dashboard_vars

\* line 124-127: the input file is missing: sleep(1) and continue.
EngineWait ==
  /\ pc = "exists"
  /\ ~input_exists
  /\ pc' = "wait"
  /\ UNCHANGED <<_file_offset, f_pos, new_lines, row_count, output_log,
                 output_file, malformed, handed, engine_runs>>
  /\ UNCHANGED producer_vars
  /\ UNCHANGED classifier_vars
  /\ UNCHANGED dashboard_vars

EngineWake ==
  /\ pc = "wait"
  /\ pc' = "exists"
  /\ UNCHANGED <<_file_offset, f_pos, new_lines, row_count, output_log,
                 output_file, malformed, handed, engine_runs>>
  /\ UNCHANGED producer_vars
  /\ UNCHANGED classifier_vars
  /\ UNCHANGED dashboard_vars

\* line 124: the input file exists.
EngineExists ==
  /\ pc = "exists"
  /\ input_exists
  /\ pc' = "read"
  /\ UNCHANGED <<_file_offset, f_pos, new_lines, row_count, output_log,
                 output_file, malformed, handed, engine_runs>>
  /\ UNCHANGED producer_vars
  /\ UNCHANGED classifier_vars
  /\ UNCHANGED dashboard_vars

\* lines 129-131: open, seek(self._file_offset), readlines(); open raises
\* FileNotFoundError when the file was removed since line 124.
EngineRead ==
  /\ pc = "read"
  /\ IF input_exists
       THEN /\ new_lines' = readlines(input_log, _file_offset)
            /\ f_pos' = tell(input_log, _file_offset)
            /\ handed' = handed \o readlines(input_log, _file_offset)
            /\ pc' = "tell"
       ELSE /\ pc' = "crashed"
            /\ UNCHANGED <<new_lines, f_pos, handed>>
  /\ UNCHANGED <<_file_offset, row_count, output_log, output_file, malformed,
                 engine_runs>>
  /\ UNCHANGED producer_vars
  /\ UNCHANGED classifier_vars
  /\ UNCHANGED dashboard_vars

\* A cursor taken from the size the file has when line 132 is reached.
EngineTell_fileSize ==
  /\ pc = "tell"
  /\ _file_offset' = Len(input_log)
  /\ pc' = "lines"
  /\ UNCHANGED <<f_pos, new_lines, row_count, output_log, output_file,
                 malformed, handed, engine_runs>>
  /\ UNCHANGED producer_vars
  /\ UNCHANGED classifier_vars
  /\ UNCHANGED dashboard_vars

\* line 132: self._file_offset = f.tell()
EngineTell ==
  /\ pc = "tell"
  /\ _file_offset' = f_pos
  /\ pc' = "lines"
  /\ UNCHANGED <<f_pos, new_lines, row_count, output_log, output_file,
                 malformed, handed, engine_runs>>
  /\ UNCHANGED producer_vars
  /\ UNCHANGED classifier_vars
  /\ UNCHANGED dashboard_vars

\* lines 136-153, what one turn of the for loop does with the stripped
\* `line` and the result `parsed` of json.loads(line):
\*   "blank"     line 136-137, nothing is left after strip(): continue
\*   "malformed" line 152-153, json.loads raised JSONDecodeError
\*   "record"    lines 140-150, the enriched record is appended
\*   "raise"     _transform_row raised (AttributeError, TypeError or
\*               ValueError), which no except clause of run() catches
LineOutcome(line, parsed) ==
  IF line = <<>> THEN "blank"
  ELSE IF parsed.kind = "error" THEN "malformed"
  ELSE IF parsed.kind = "object" /\ TransformOk(BodyRow(parsed.body)) THEN "record"
  ELSE "raise"

\* lines 134-153: one turn of the for loop.
EngineLine ==
  /\ pc = "lines"
  /\ new_lines /= <<>>
  /\ \E line \in {strip(Head(new_lines))} :
     \E parsed \in {json_loads(line)} :
     \E outcome \in {LineOutcome(line, parsed)} :
       /\ new_lines' = IF outcome = "malformed"
                         THEN RestAfterSkip(new_lines) ELSE Tail(new_lines)
       /\ malformed' = IF outcome = "malformed" THEN Append(malformed, line) ELSE malformed
       /\ row_count' = IF outcome = "record" THEN row_count + 1 ELSE row_count
       /\ output_log' = IF outcome = "record"
                          THEN Append(output_log, _transform_row(BodyRow(parsed.body)))
                          ELSE output_log
       /\ output_file' = IF outcome = "record"
                           THEN output_file \o written_text(_transform_row(BodyRow(parsed.body)))
                           ELSE output_file
       /\ pc' = IF outcome = "raise" THEN "crashed" ELSE pc
  /\ UNCHANGED <<_file_offset, f_pos, handed, engine_runs>>
  /\ UNCHANGED producer_vars
  /\ UNCHANGED classifier_vars
  /\ UNCHANGED dashboard_vars

\* the for loop is over: line 155, time.sleep(self.poll_interval)
EngineSleep ==
  /\ pc = "lines"
  /\ new_lines = <<>>
  /\ pc' = "sleep"
  /\ UNCHANGED <<_file_offset, f_pos, new_lines, row_count, output_log,
                 output_file, malformed, handed, engine_runs>>
  /\ UNCHANGED producer_vars
  /\ UNCHANGED classifier_vars
  /\ UNCHANGED dashboard_vars

\* the sleep is over: back to line 123
EngineLoop ==
  /\ pc = "sleep"
  /\ pc' = "exists"
  /\ UNCHANGED <<_file_offset, f_pos, new_lines, row_count, output_log,
                 output_file, malformed, handed, engine_runs>>
  /\ UNCHANGED producer_vars
  /\ UNCHANGED classifier_vars
  /\ UNCHANGED dashboard_vars

\* lines 129-131 when the operating system fails the read: open, seek or
\* readlines raises OSError, which run() does not catch.
EngineReadError ==
  /\ pc = "read"
  /\ input_exists
  /\ pc' = "crashed"
  /\ UNCHANGED <<_file_offset, f_pos, new_lines, row_count, output_log,
                 output_file, malformed, handed, engine_runs>>
  /\ UNCHANGED producer_vars
  /\ UNCHANGED classifier_vars
  /\ UNCHANGED dashboard_vars

\* lines 140-144 when the operating system fails the append: the record is
\* counted (line 141), open or write raises OSError, and the except clause
\* of line 152 is for json.JSONDecodeError only.
EngineWriteError ==
  /\ pc = "lines"
  /\ new_lines /= <<>>
  /\ \E line \in {strip(Head(new_lines))} :
     \E parsed \in {json_loads(line)} :
       /\ LineOutcome(line, parsed) = "record"
       /\ row_count' = row_count + 1
       /\ pc' = "crashed"
  /\ UNCHANGED <<_file_offset, f_pos, new_lines, output_log, output_file,
                 malformed, handed, engine_runs>>
  /\ UNCHANGED producer_vars
  /\ UNCHANGED classifier_vars
  /\ UNCHANGED dashboard_vars

\* The engine process is started anew (python monitoring_pipeline.py): what
\* the process before it held in memory is gone, the files are as they were.
EngineStart ==
  /\ pc /= "init"
  /\ engine_runs < MaxRuns
  /\ engine_runs' = engine_runs + 1
  /\ pc' = "init"
  /\ UNCHANGED <<_file_offset, f_pos, new_lines, row_count, output_log,
                 output_file, malformed, handed>>
  /\ UNCHANGED producer_vars
  /\ UNCHANGED classifier_vars
  /\ UNCHANGED dashboard_vars

\* A constructor that leaves the output file alone.
RemoveOutput_keep(content) == content

\* lines 95-96: if os.path.exists(self.output_file): os.remove(...)
RemoveOutput(content) == <<>>

\* A constructor that keeps the cursor it finds.
InitialOffset_kept == _file_offset

\* line 93: self._file_offset = 0
InitialOffset == 0

\* lines 89-96 and 120-122: PathwaySimulator.__init__, then run() up to the
\* top of its loop.
EngineConstruct ==
  /\ pc = "init"
  /\ _file_offset' = InitialOffset
  /\ output_log' = RemoveOutput(output_log)
  /\ output_file' = RemoveOutput(output_file)
  /\ row_count' = 0
  /\ f_pos' = 0
  /\ new_lines' = <<>>
  /\ malformed' = <<>>
  /\ handed' = <<>>
  /\ pc' = "exists"
  /\ UNCHANGED engine_runs
  /\ UNCHANGED producer_vars
  /\ UNCHANGED classifier_vars
  /\ UNCHANGED dashboard_vars

EngineNext ==
  \/ EngineWait
  \/ EngineWake
  \/ EngineExists
  \/ EngineRead
  \/ EngineTell
  \/ EngineLine
  \/ EngineSleep
  \/ EngineLoop

Next ==
  \/ \E line \in AllLines : ProducerAppend(line)
  \/ \E line \in AllLines : \E k \in 1..2 : ProducerAppendPart(line, k)
  \/ ProducerAppendRest
  \/ ProducerRestart
  \/ EngineNext

Spec == Init /\ [][Next]_vars

\* The input log is only appended to (the producer is started once).
NextAppendOnly ==
  \/ \E line \in AllLines : ProducerAppend(line)
  \/ \E line \in AllLines : \E k \in 1..2 : ProducerAppendPart(line, k)
  \/ ProducerAppendRest
  \/ EngineNext

SpecAppendOnly == Init /\ [][NextAppendOnly]_vars

\* The input log receives whole lines only, each a RawReading or no JSON.
NextWhole ==
  \/ \E line \in CleanLines : ProducerAppend(line)
  \/ EngineNext

SpecWhole == Init /\ [][NextWhole]_vars

\* The while loop of run() never stops taking steps.
FairWhole == SpecWhole /\ WF_vars(EngineNext)

\* Whole lines, and a producer that may be started anew: it removes the
\* input log and appends to a new file.
NextProducerRestart ==
  \/ \E line \in CleanLines : ProducerAppend(line)
  \/ ProducerRestart
  \/ EngineNext

SpecProducerRestart == Init /\ [][NextProducerRestart]_vars

FairProducerRestart == SpecProducerRestart /\ WF_vars(EngineNext)

\* Whole lines, and an operating system that may fail a read of the input
\* log or an append to the output log.
NextIOError ==
  \/ \E line \in CleanLines : ProducerAppend(line)
  \/ EngineNext
  \/ EngineReadError
  \/ EngineWriteError

SpecIOError == Init /\ [][NextIOError]_vars

\* Whole lines, and a request to stop that is raised at some moment.
NextStop ==
  \/ \E line \in CleanLines : ProducerAppend(line)
  \/ RaiseStop
  \/ EngineNext

SpecStop == Init /\ [][NextStop]_vars

\* Whole lines, and an engine that may be started anew at any moment.
NextEngineRestart ==
  \/ \E line \in CleanLines : ProducerAppend(line)
  \/ EngineStart
  \/ EngineConstruct
  \/ EngineNext

SpecEngineRestart == Init /\ [][NextEngineRestart]_vars

\* A started engine is constructed, and its while loop never stops taking
\* steps.
FairEngineRestart ==
  SpecEngineRestart /\ WF_vars(EngineNext) /\ WF_vars(EngineConstruct)

----------------------------------------------------------------------------
(* The classifiers on their own: every function of lines 47-73 and of      *)
(* dashboard.py lines 438-486 applied to one (aqi, temp, humidity).        *)

\* The thresholds of the three dimensions.
Thresholds == {100, 150, 35, 40, 60, 80}

\* 0 and the whole numbers at most Margin away from a threshold, each as it
\* is and with a fractional part added.
ClassifyValues ==
  {Num(w, f) : w \in {0} \cup UNION {(t - Margin)..(t + Margin) : t \in Thresholds},
               f \in BOOLEAN}

InitClassify ==
  /\ InitPipeline
  /\ InitDashboard
  /\ row_in = [timestamp |-> Str("")]
  /\ row_out = <<>>
  /\ classify_in \in [aqi : ClassifyValues, temp : ClassifyValues, humid : ClassifyValues]
  /\ classify_out = NotApplied

\* The engine classifies classify_in: lines 112-115 of _transform_row.
ApplyEngineClassifiers ==
  /\ classify_out.overall_status = ""
  /\ classify_out' =
       [classify_out EXCEPT
          !.aqi_status = detect_aqi_risk(classify_in.aqi),
          !.temp_status = detect_temp_risk(classify_in.temp),
          !.humidity_status = detect_humidity_risk(classify_in.humid),
          !.overall_status = compute_overall_status(classify_in.aqi, classify_in.temp,
                                                    classify_in.humid)]
  /\ UNCHANGED <<classify_in, row_in, row_out>>
  /\ UNCHANGED dashboard_vars
  /\ UNCHANGED <<input_exists, input_log, pending, written, restarts, stop_requested>>
  /\ UNCHANGED <<pc, _file_offset, f_pos, new_lines, row_count, output_log,
                 output_file, malformed, handed, engine_runs>>

\* The dashboard classifies classify_in: dashboard.py lines 623-625, 669
\* and 812.
ApplyDashboardClassifiers ==
  /\ classify_out.risk_level = ""
  /\ classify_out' =
       [classify_out EXCEPT
          !.risk_level = get_risk_level(classify_in.aqi, classify_in.temp, classify_in.humid),
          !.aqi_badge = aqi_badge(classify_in.aqi),
          !.temp_badge = temp_badge(classify_in.temp),
          !.humid_badge = humid_badge(classify_in.humid),
          !.alerts = build_alerts(classify_in.aqi, classify_in.temp, classify_in.humid)]
  /\ UNCHANGED <<classify_in, row_in, row_out>>
  /\ UNCHANGED dashboard_vars
  /\ UNCHANGED <<input_exists, input_log, pending, written, restarts, stop_requested>>
  /\ UNCHANGED <<pc, _file_offset, f_pos, new_lines, row_count, output_log,
                 output_file, malformed, handed, engine_runs>>

NextClassify ==
  \/ ApplyEngineClassifiers
  \/ ApplyDashboardClassifiers

SpecClassify == InitClassify /\ [][NextClassify]_vars

----------------------------------------------------------------------------
(* The record transformer on its own: _transform_row applied to one raw    *)
(* row, at any moment of a run of the engine.                              *)

\* The row r without the keys that are not in `keys`.
Restrict(r, keys) == [k \in keys |-> r[k]]

\* Raw rows with the three numeric fields, with and without a timestamp
\* and a sensor_id.
RawRows ==
  {Restrict([timestamp |-> Str("T9"), sensor_id |-> Str("S9"), aqi |-> a,
             temperature_c |-> t, humidity_pct |-> h],
            {"aqi", "temperature_c", "humidity_pct"} \cup optional) :
     optional \in SUBSET {"timestamp", "sensor_id"},
     a \in {Num(100, FALSE), Num(150, TRUE), Num(200, FALSE)},
     t \in {Num(35, TRUE), Num(42, FALSE)},
     h \in {Num(60, FALSE), Num(90, FALSE)}}

InitTransform ==
  /\ InitPipeline
  /\ InitDashboard
  /\ classify_in = [aqi |-> Num(0, FALSE), temp |-> Num(0, FALSE), humid |-> Num(0, FALSE)]
  /\ classify_out = NotApplied
  /\ row_in \in RawRows
  /\ row_out = <<>>

\* A call that reads the counter of the engine besides the row.
ApplyTransform_hidden ==
  /\ Len(row_out) < MaxApply
  /\ TransformOk(row_in)
  /\ row_out' = Append(row_out, [_transform_row(row_in) EXCEPT
                                   !.aqi = Num(@.w + row_count, FALSE)])
  /\ UNCHANGED <<classify_in, classify_out, row_in>>
  /\ UNCHANGED dashboard_vars
  /\ UNCHANGED producer_vars
  /\ UNCHANGED engine_vars

\* line 140: enriched = self._transform_row(row)
ApplyTransform ==
  /\ Len(row_out) < MaxApply
  /\ TransformOk(row_in)
  /\ row_out' = Append(row_out, _transform_row(row_in))
  /\ UNCHANGED <<classify_in, classify_out, row_in>>
  /\ UNCHANGED dashboard_vars
  /\ UNCHANGED producer_vars
  /\ UNCHANGED engine_vars

NextTransform ==
  \/ \E line \in CleanLines : ProducerAppend(line)
  \/ EngineNext
  \/ ApplyTransform

SpecTransform == InitTransform /\ [][NextTransform]_vars

----------------------------------------------------------------------------
(* Vocabulary of the properties.                                           *)

RECURSIVE Flatten(_)
Flatten(ss) == IF ss = <<>> THEN <<>> ELSE Head(ss) \o Flatten(Tail(ss))

IsPrefix(a, b) == Len(a) <= Len(b) /\ SubSeq(b, 1, Len(a)) = a

RECURSIVE IsSubSeq(_, _)
\* a is b with some of its elements left out.
IsSubSeq(a, b) ==
  IF a = <<>> THEN TRUE
  ELSE IF b = <<>> THEN FALSE
  ELSE IF Head(a) = Head(b) THEN IsSubSeq(Tail(a), Tail(b))
  ELSE IsSubSeq(a, Tail(b))

RECURSIVE StampsOf(_, _)
\* The timestamps of the readings in `log` whose body is in `bodies`, in the
\* order the readings appear in the log.
StampsOf(log, bodies) ==
  IF log = <<>> THEN <<>>
  ELSE IF Head(log) \in bodies
       THEN <<BodyRow(Head(log)).timestamp>> \o StampsOf(Tail(log), bodies)
       ELSE StampsOf(Tail(log), bodies)

\* The timestamps of the records of the output log, in order.
OutputStamps == [i \in 1..Len(output_log) |-> output_log[i].timestamp]

Occurrences(seq, x) == Cardinality({i \in 1..Len(seq) : seq[i] = x})

\* The engine has read the whole input log, has processed every line of it
\* and sleeps; the producer is not in the middle of a line.
CaughtUp ==
  /\ pc = "sleep"
  /\ pending = <<>>
  /\ input_exists
  /\ _file_offset = Len(input_log)

\* The lines the for loop has dealt with so far.
Processed == SubSeq(handed, 1, Len(handed) - Len(new_lines))

RECURSIVE LinesOf(_)
\* The lines of a text: it is cut after each line break, and text after the
\* last line break is a last line. (The text is cut in two at a line break
\* near its middle, and the lines of the two parts are put together.)
LinesOf(text) ==
  LET n == Len(text)
      inner == {i \in 1..(n - 1) : text[i] = OUT_LB}
      upper == {i \in inner : 2 * i >= n}
      cut == IF upper /= {}
               THEN CHOOSE i \in upper : \A j \in upper : i <= j
               ELSE CHOOSE i \in inner : \A j \in inner : i >= j
  IN IF n = 0 THEN <<>>
     ELSE IF inner = {} THEN <<text>>
     ELSE LinesOf(SubSeq(text, 1, cut)) \o LinesOf(SubSeq(text, cut + 1, n))

\* The lines a reader of the output log finds in the text rest, read after
\* the text cur of a line begun before.
OutputLines(rest, cur) == LinesOf(cur \o rest)

EnrichedFields == {"timestamp", "sensor_id", "aqi", "temperature_c", "humidity_pct",
                   "aqi_status", "temp_status", "humidity_status", "overall_status"}

\* The whole text of one enriched record, ended by its line break.
IsCompleteRecordLine(l) ==
  /\ Len(l) = 3
  /\ DOMAIN l[1] = EnrichedFields
  /\ l[2] = OUT_CLOSE
  /\ l[3] = OUT_LB

NumericFields == {"aqi", "temperature_c", "humidity_pct"}
MissingField(row) == \E f \in NumericFields : f \notin DOMAIN row
NonNumericField(row) == \E f \in NumericFields : f \in DOMAIN row /\ row[f].k /= "num"

\* The text of a line is a JSON object.
IsRecordText(t) == Len(t) = 2 /\ t[1] \in Bodies /\ t[2] = CLOSE

\* A line that is not blank and does not parse, or fails numeric coercion.
Unacceptable(l) ==
  LET t == strip(l)
  IN t /= <<>> /\ (~IsRecordText(t) \/ NonNumericField(BodyRow(t[1])))

----------------------------------------------------------------------------
(* C1: after every poll the cursor is 0 or sits right after a line break   *)
(* of the input log, and every line a poll hands to parsing ends with a    *)
(* line break.                                                             *)
C1_CursorAfterLineBreak ==
  /\ \/ _file_offset = 0
     \/ (_file_offset <= Len(input_log) /\ input_log[_file_offset] = LB)
  /\ \A i \in 1..Len(handed) : handed[i][Len(handed[i])] = LB

(* C2: a well-formed record written in two pieces, with a poll in between, *)
(* is returned whole: no piece of it is reported as a malformed line, and  *)
(* once the engine has caught up the output log holds exactly one record   *)
(* for each well-formed record of the input log.                           *)
C2_TornRecordReturnedWhole ==
  /\ \A i \in 1..Len(malformed) : \A b \in WellFormedBodies : malformed[i] /= <<b>>
  /\ CaughtUp =>
       \A b \in WellFormedBodies :
         Occurrences(OutputStamps, BodyRow(b).timestamp) = Occurrences(input_log, b)

(* C3: at-least-once delivery: under a poll loop that keeps running, the   *)
(* n-th well-formed record appended to the input log is eventually the     *)
(* n-th record of the output log.                                          *)
C3_AtLeastOnce ==
  \A n \in 1..MaxWrites :
    (Len(StampsOf(input_log, WellFormedBodies)) >= n)
      ~> (/\ Len(output_log) >= n
          /\ Len(StampsOf(input_log, WellFormedBodies)) >= n
          /\ output_log[n].timestamp = StampsOf(input_log, WellFormedBodies)[n])

C3_Witness ==
  /\ Len(output_log) >= 2
  /\ OutputStamps = StampsOf(input_log, WellFormedBodies)
  /\ malformed = <<>>

(* C4: the records of the output log are in the relative order in which    *)
(* their readings appear in the input log, however the polls split them.   *)
C4_OrderPreserved == IsSubSeq(OutputStamps, StampsOf(input_log, Bodies))

C4_Witness ==
  /\ Len(output_log) >= 2
  /\ output_log[1].timestamp /= output_log[2].timestamp
  /\ _file_offset < Len(input_log)

(* C5: with an input log of well-formed record lines and unparseable       *)
(* lines, the output log holds one record per well-formed line, in input   *)
(* order, and nothing else; an unparseable line is reported once and the   *)
(* lines after it are still processed.                                     *)
C5_MalformedLineIsolation ==
  /\ pc /= "crashed"
  /\ IsPrefix(OutputStamps, StampsOf(input_log, WellFormedBodies))
  /\ \A i \in 1..Len(malformed) : malformed[i] = <<GARBAGE>>
  /\ CaughtUp =>
       /\ OutputStamps = StampsOf(input_log, WellFormedBodies)
       /\ Len(malformed) = Occurrences(input_log, GARBAGE)

C5_Witness ==
  /\ CaughtUp
  /\ input_log = RecordLine("r1") \o GarbageLine \o RecordLine("r2")
  /\ Len(output_log) = 2
  /\ Len(malformed) = 1

(* C6: the malformed-line counter equals the number of lines dealt with    *)
(* so far that failed to parse or failed numeric coercion.                 *)
C6_MalformedCounter ==
  Len(malformed) = Cardinality({i \in 1..Len(Processed) : Unacceptable(Processed[i])})

(* C7: a line that parses as JSON but fails in the record transformer does *)
(* not stop the poll loop.                                                 *)
C7_TransformFailureKeepsLoop == pc /= "crashed"

C9_OffsetNeverDecreases == [][_file_offset' >= _file_offset]_vars

C9_Witness ==
  /\ input_exists
  /\ _file_offset > Len(input_log)
  /\ restarts > 0
  /\ pc = "lines"

(* C10: against an append-only input log every byte is handed to parsing   *)
(* at most once: the lines the polls returned, put end to end, are a       *)
(* prefix of the input log, each such line gives at most one record or one *)
(* malformed-line report, and a reading gives no more records than the     *)
(* input log holds copies of it.                                           *)
C10_NoLineParsedTwice ==
  /\ IsPrefix(Flatten(handed), input_log)
  /\ Len(output_log) + Len(malformed) <= Len(Processed)
  /\ \A b \in Bodies :
       Occurrences(OutputStamps, BodyRow(b).timestamp) <= Occurrences(input_log, b)

C10_Witness ==
  /\ Len(output_log) >= 1
  /\ Len(malformed) >= 1
  /\ pc = "sleep"
  /\ Len(handed) >= 3

(* C11: as long as the input file has not appeared, the steps of the poll  *)
(* loop hand no line to parsing, leave the cursor at 0 and the output log  *)
(* as it is, raise no error and stay in the waiting branch; the first poll *)
(* that returns lines after the file has appeared returns the whole file,  *)
(* from offset 0.                                                          *)
C11_MissingInputIsWaitedFor ==
  [][/\ (~input_exists /\ ~input_exists')
          => /\ pc' \in {"exists", "wait"}
             /\ _file_offset' = 0
             /\ new_lines' = <<>>
             /\ handed' = <<>>
             /\ output_log' = output_log
     /\ (handed = <<>> /\ handed' /= <<>>)
          => /\ _file_offset = 0
             /\ Flatten(handed') = input_log]_vars

C11_Witness ==
  /\ pc = "wait"
  /\ input_exists
  /\ _file_offset = 0
  /\ output_log = <<>>

(* C12: once a poll has read the input file, the poll loop is never again  *)
(* in the branch that waits for the file to appear: with the file gone, an *)
(* iteration is a poll that returns no lines and sleeps poll_interval.     *)
C12_NeverBackToAwaitingInput ==
  (_file_offset > 0 \/ handed /= <<>>) => pc /= "wait"

\* The lines read by the current poll that the for loop has yet to deal
\* with; they are gone when run() has ended.
InFlight == IF pc = "crashed" THEN <<>> ELSE Flatten(new_lines)

(* C13: a failing read of the input log or a failing append to the output  *)
(* log does not end the poll loop, and the cursor is never past a reading  *)
(* that is neither in the output log nor still to be written by the        *)
(* current poll.                                                           *)
C13_IOErrorIsRetried ==
  /\ pc \in {"exists", "wait", "read", "tell", "lines", "sleep"}
  /\ IsPrefix(StampsOf(SubSeq(input_log, 1, _file_offset), WellFormedBodies),
              OutputStamps \o StampsOf(InFlight, WellFormedBodies))

(* C14: with a request to stop raised, the poll loop that is at the top of *)
(* an iteration does not begin another poll or wait: its next step is to   *)
(* stop.                                                                   *)
C14_StopIsObserved ==
  [][(stop_requested /\ pc = "exists" /\ pc' /= pc) => pc' = "stopped"]_vars

(* C15: whenever a reader looks at the output log, between any two steps   *)
(* of the engine, every line it finds is the whole text of one enriched    *)
(* record ended by a line break, and these records are the records the     *)
(* engine has appended, in order.                                          *)
C15_OnlyCompleteOutputLines ==
  LET lines == OutputLines(output_file, <<>>)
  IN /\ \A i \in 1..Len(lines) : IsCompleteRecordLine(lines[i])
     /\ [i \in 1..Len(lines) |-> lines[i][1]] = output_log

C15_Witness ==
  /\ Len(OutputLines(output_file, <<>>)) >= 2
  /\ pc = "lines"
  /\ new_lines /= <<>>
  /\ pending /= <<>>

(* C16: the step that constructs the engine leaves an empty output log,    *)
(* whatever an earlier run has written to it, and every other step leaves  *)
(* the lines of the output log in place: the log before the step is a      *)
(* prefix of the log after it.                                             *)
C16_FreshRunThenAppendOnly ==
  [][IF pc = "init" /\ pc' /= "init"
       THEN output_log' = <<>> /\ output_file' = <<>>
       ELSE IsPrefix(output_log, output_log') /\ IsPrefix(output_file, output_file')]_vars

C16_Witness ==
  /\ engine_runs = 2
  /\ pc = "lines"
  /\ Len(output_log) = 1
  /\ Len(input_log) > _file_offset
  /\ new_lines /= <<>>

(* C17: an engine that is started anew over an input log it had processed  *)
(* in part eventually catches up, and whenever it has caught up the output *)
(* log holds every well-formed reading of the input log, those not         *)
(* processed before the new start included, exactly once each and in input *)
(* order.                                                                  *)
C17_RestartReprocessesFromZero ==
  /\ []((engine_runs > 1 /\ CaughtUp)
          => \A b \in WellFormedBodies :
               Occurrences(OutputStamps, BodyRow(b).timestamp) = Occurrences(input_log, b))
  /\ (pc = "init" /\ input_exists)
       ~> (/\ engine_runs > 1
           /\ CaughtUp
           /\ OutputStamps = StampsOf(input_log, WellFormedBodies))

C17_Witness ==
  /\ engine_runs = 2
  /\ CaughtUp
  /\ row_count = 3
  /\ OutputStamps = StampsOf(input_log, WellFormedBodies)

----------------------------------------------------------------------------
(* Vocabulary of the classifier properties.                                *)

\* v is strictly greater than the whole number n: v is not at most n.
StrictlyGreater(v, n) == ~(v.w < n \/ (v.w = n /\ ~v.f))

TierOf(v, lower, upper) ==
  IF StrictlyGreater(v, upper) THEN "UNSAFE"
  ELSE IF StrictlyGreater(v, lower) THEN "CAUTION"
  ELSE "SAFE"

\* The tier an advisory of the engine stands for.
AdvisoryTier(advisory) ==
  CASE advisory \in {"UNSAFE AIR - Avoid outdoor activity",
                     "HEAT RISK - Stay hydrated, avoid direct sun",
                     "HIGH MOISTURE ALERT - Risk of mold, heat stress"} -> "UNSAFE"
    [] advisory \in {"MODERATE - Sensitive groups should be cautious",
                     "WARM - Drink water regularly",
                     "ELEVATED - Monitor for discomfort"} -> "CAUTION"
    [] advisory \in {"GOOD - Air quality is safe",
                     "NORMAL - Temperature is comfortable",
                     "NORMAL - Humidity is comfortable"} -> "SAFE"
    [] OTHER -> "none"

\* The tier a risk level or a badge class of the dashboard stands for.
DashboardTier(name) ==
  CASE name \in {"danger", "sub-danger"} -> "UNSAFE"
    [] name \in {"warn", "sub-warn"} -> "CAUTION"
    [] name \in {"safe", "sub-safe"} -> "SAFE"
    [] OTHER -> "none"

Worst(tiers) ==
  IF "UNSAFE" \in tiers THEN "UNSAFE"
  ELSE IF "CAUTION" \in tiers THEN "CAUTION"
  ELSE "SAFE"

EngineApplied == classify_out.overall_status /= ""
DashboardApplied == classify_out.risk_level /= ""

Whole(n) == Num(n, FALSE)
Triple(a, t, h) == [aqi |-> a, temp |-> t, humid |-> h]

(* C18: each per-dimension classifier returns the UNSAFE advisory exactly  *)
(* for a value strictly greater than the upper threshold (150, 40, 80),    *)
(* the CAUTION advisory exactly for a value strictly greater than the      *)
(* lower threshold (100, 35, 60) and not greater than the upper one, and   *)
(* the SAFE advisory otherwise; a value equal to a threshold is in the     *)
(* lower tier.                                                             *)
C18_ClassifierTiers ==
  EngineApplied =>
    /\ AdvisoryTier(classify_out.aqi_status) = TierOf(classify_in.aqi, 100, 150)
    /\ AdvisoryTier(classify_out.temp_status) = TierOf(classify_in.temp, 35, 40)
    /\ AdvisoryTier(classify_out.humidity_status) = TierOf(classify_in.humid, 60, 80)
    /\ classify_in.aqi = Whole(150) => AdvisoryTier(classify_out.aqi_status) = "CAUTION"
    /\ classify_in.aqi = Whole(100) => AdvisoryTier(classify_out.aqi_status) = "SAFE"
    /\ classify_in.temp = Whole(40) => AdvisoryTier(classify_out.temp_status) = "CAUTION"
    /\ classify_in.temp = Whole(35) => AdvisoryTier(classify_out.temp_status) = "SAFE"
    /\ classify_in.humid = Whole(80) => AdvisoryTier(classify_out.humidity_status) = "CAUTION"
    /\ classify_in.humid = Whole(60) => AdvisoryTier(classify_out.humidity_status) = "SAFE"

C18_Witness ==
  /\ EngineApplied
  /\ classify_in = Triple(Num(150, TRUE), Whole(40), Whole(60))
  /\ classify_out.aqi_status = "UNSAFE AIR - Avoid outdoor activity"
  /\ classify_out.temp_status = "WARM - Drink water regularly"
  /\ classify_out.humidity_status = "NORMAL - Humidity is comfortable"

(* C19, as stated: the overall status is the worst of the tiers of the     *)
(* three advisories the per-dimension classifiers return for the same      *)
(* triple; (150,0,0) is SAFE, (151,0,0) UNSAFE, (101,0,0) CAUTION,         *)
(* (0,35,0) SAFE, (0,35.1,0) CAUTION, (0,0,80) SAFE and (0,0,81) UNSAFE.   *)
C19_OverallStatusAsStated ==
  EngineApplied =>
    /\ classify_out.overall_status =
         Worst({AdvisoryTier(classify_out.aqi_status),
                AdvisoryTier(classify_out.temp_status),
                AdvisoryTier(classify_out.humidity_status)})
    /\ classify_in = Triple(Whole(150), Whole(0), Whole(0)) => classify_out.overall_status = "SAFE"
    /\ classify_in = Triple(Whole(151), Whole(0), Whole(0)) => classify_out.overall_status = "UNSAFE"
    /\ classify_in = Triple(Whole(101), Whole(0), Whole(0)) => classify_out.overall_status = "CAUTION"
    /\ classify_in = Triple(Whole(0), Whole(35), Whole(0)) => classify_out.overall_status = "SAFE"
    /\ classify_in = Triple(Whole(0), Num(35, TRUE), Whole(0)) => classify_out.overall_status = "CAUTION"
    /\ classify_in = Triple(Whole(0), Whole(0), Whole(80)) => classify_out.overall_status = "SAFE"
    /\ classify_in = Triple(Whole(0), Whole(0), Whole(81)) => classify_out.overall_status = "UNSAFE"

(* C19, amended: the overall status is the worst of the tiers of the three *)
(* advisories the per-dimension classifiers return for the same triple;    *)
(* (150,0,0) is CAUTION, 150 being above the lower threshold 100, and      *)
(* (0,0,80) is CAUTION, 80 being above the lower threshold 60; (151,0,0)   *)
(* is UNSAFE, (101,0,0) CAUTION, (100,0,0) SAFE, (0,35,0) SAFE,            *)
(* (0,35.1,0) CAUTION, (0,0,60) SAFE and (0,0,81) UNSAFE.                  *)
C19_OverallIsWorstTier ==
  EngineApplied =>
    /\ classify_out.overall_status =
         Worst({AdvisoryTier(classify_out.aqi_status),
                AdvisoryTier(classify_out.temp_status),
                AdvisoryTier(classify_out.humidity_status)})
    /\ classify_in = Triple(Whole(150), Whole(0), Whole(0)) => classify_out.overall_status = "CAUTION"
    /\ classify_in = Triple(Whole(151), Whole(0), Whole(0)) => classify_out.overall_status = "UNSAFE"
    /\ classify_in = Triple(Whole(101), Whole(0), Whole(0)) => classify_out.overall_status = "CAUTION"
    /\ classify_in = Triple(Whole(100), Whole(0), Whole(0)) => classify_out.overall_status = "SAFE"
    /\ classify_in = Triple(Whole(0), Whole(35), Whole(0)) => classify_out.overall_status = "SAFE"
    /\ classify_in = Triple(Whole(0), Num(35, TRUE), Whole(0)) => classify_out.overall_status = "CAUTION"
    /\ classify_in = Triple(Whole(0), Whole(0), Whole(80)) => classify_out.overall_status = "CAUTION"
    /\ classify_in = Triple(Whole(0), Whole(0), Whole(60)) => classify_out.overall_status = "SAFE"
    /\ classify_in = Triple(Whole(0), Whole(0), Whole(81)) => classify_out.overall_status = "UNSAFE"

C19_Witness ==
  /\ EngineApplied
  /\ classify_in = Triple(Whole(150), Whole(0), Whole(0))
  /\ classify_out.aqi_status = "MODERATE - Sensitive groups should be cautious"
  /\ classify_out.overall_status = "CAUTION"

(* C20: for every triple the risk level of the dashboard stands for the    *)
(* tier the engine returns as overall status, and each badge of the        *)
(* dashboard stands for the tier of the advisory the engine returns for    *)
(* that dimension; the risk level the dashboard derives from the values    *)
(* stored in a record is the overall status stored in that record.         *)
C20_DashboardAgreesWithEngine ==
  /\ (EngineApplied /\ DashboardApplied) =>
       /\ DashboardTier(classify_out.risk_level) = classify_out.overall_status
       /\ DashboardTier(classify_out.aqi_badge[1]) = AdvisoryTier(classify_out.aqi_status)
       /\ DashboardTier(classify_out.temp_badge[1]) = AdvisoryTier(classify_out.temp_status)
       /\ DashboardTier(classify_out.humid_badge[1]) = AdvisoryTier(classify_out.humidity_status)
  /\ LET stored == _transform_row([aqi |-> classify_in.aqi,
                                    temperature_c |-> classify_in.temp,
                                    humidity_pct |-> classify_in.humid])
     IN DashboardTier(get_risk_level(ToInt(stored.aqi), ToFloat(stored.temperature_c),
                                     ToInt(stored.humidity_pct)))
          = stored.overall_status

C20_Witness ==
  /\ EngineApplied
  /\ DashboardApplied
  /\ classify_in = Triple(Whole(100), Num(40, TRUE), Whole(80))
  /\ classify_out.risk_level = "danger"
  /\ classify_out.overall_status = "UNSAFE"
  /\ classify_out.aqi_badge = <<"sub-safe", "GOOD">>
  /\ classify_out.humid_badge = <<"sub-warn", "ELEVATED">>

(* C21: for a raw row with its three numeric fields, the transformer       *)
(* returns the timestamp and the sensor_id of the row when the row has     *)
(* them, the sensor_id "UNKNOWN" when the row has none, and the empty      *)
(* string as timestamp when the row has none.                              *)
C21_TimestampAndSensorDefaults ==
  \A i \in 1..Len(row_out) :
    /\ "timestamp" \in DOMAIN row_in => row_out[i].timestamp = row_in.timestamp
    /\ "timestamp" \notin DOMAIN row_in => row_out[i].timestamp = Str("")
    /\ "sensor_id" \in DOMAIN row_in => row_out[i].sensor_id = row_in.sensor_id
    /\ "sensor_id" \notin DOMAIN row_in => row_out[i].sensor_id = Str("UNKNOWN")

C21_Witness ==
  /\ row_out /= <<>>
  /\ DOMAIN row_in = {"aqi", "temperature_c", "humidity_pct"}
  /\ row_out[1].timestamp = Str("")
  /\ row_out[1].sensor_id = Str("UNKNOWN")

(* C22: every record of the output log has exactly the nine fields, an     *)
(* overall status that is SAFE, CAUTION or UNSAFE, a non-empty advisory    *)
(* for each dimension, and the advisories and the overall status are those *)
(* of the tiers of the aqi, temperature_c and humidity_pct the record      *)
(* itself holds; the record with aqi 200, temperature 42.0 and humidity 90 *)
(* is UNSAFE.                                                              *)
C22_OutputRecordShape ==
  \A i \in 1..Len(output_log) :
    LET r == output_log[i]
    IN /\ DOMAIN r = EnrichedFields
       /\ r.overall_status \in {"SAFE", "CAUTION", "UNSAFE"}
       /\ r.aqi_status /= "" /\ r.temp_status /= "" /\ r.humidity_status /= ""
       /\ AdvisoryTier(r.aqi_status) = TierOf(r.aqi, 100, 150)
       /\ AdvisoryTier(r.temp_status) = TierOf(r.temperature_c, 35, 40)
       /\ AdvisoryTier(r.humidity_status) = TierOf(r.humidity_pct, 60, 80)
       /\ r.overall_status = Worst({TierOf(r.aqi, 100, 150),
                                    TierOf(r.temperature_c, 35, 40),
                                    TierOf(r.humidity_pct, 60, 80)})
       /\ (r.aqi = Whole(200) /\ r.temperature_c = Whole(42) /\ r.humidity_pct = Whole(90))
            => r.overall_status = "UNSAFE"

C22_Witness ==
  /\ Len(output_log) >= 2
  /\ \E i \in 1..Len(output_log) :
       /\ output_log[i].aqi = Whole(200)
       /\ output_log[i].temperature_c = Whole(42)
       /\ output_log[i].humidity_pct = Whole(90)
       /\ output_log[i].overall_status = "UNSAFE"
  /\ \E i \in 1..Len(output_log) : output_log[i].overall_status = "CAUTION"

\* The raw row of the body a record of the output log was made from.
SourceRows(r) == {BodyRow(b) : b \in {c \in Bodies : BodyRow(c).timestamp = r.timestamp}}

RECURSIVE EnrichmentsOf(_)
\* The enriched records of the well-formed readings of `log`, in order.
EnrichmentsOf(log) ==
  IF log = <<>> THEN <<>>
  ELSE IF Head(log) \in WellFormedBodies
       THEN <<_transform_row(BodyRow(Head(log)))>> \o EnrichmentsOf(Tail(log))
       ELSE EnrichmentsOf(Tail(log))

(* C24: whenever the loop is at its poll-interval sleep, no line of the    *)
(* last poll is left in memory, the cursor is inside the input log, and    *)
(* the output log is exactly the sequence of the enriched records of the   *)
(* well-formed lines in the bytes [0, offset) of the input log; the lines  *)
(* among them that do not parse have been reported, one report each.       *)
C24_NothingBufferedAcrossPolls ==
  pc = "sleep" =>
    /\ new_lines = <<>>
    /\ _file_offset <= Len(input_log)
    /\ output_log = EnrichmentsOf(SubSeq(input_log, 1, _file_offset))
    /\ Len(malformed) = Occurrences(SubSeq(input_log, 1, _file_offset), GARBAGE)

C24_Witness ==
  /\ pc = "sleep"
  /\ Len(output_log) = 1
  /\ Len(malformed) = 1
  /\ _file_offset < Len(input_log)
  /\ Len(StampsOf(input_log, WellFormedBodies)) = 2

(* C25: an iteration that finds no bytes after the cursor, nothing having  *)
(* been appended since the poll before it, reads no line, leaves the       *)
(* cursor where it is and appends nothing to the output log, however many  *)
(* such iterations follow one another.                                     *)
C25_IdempotentRepoll ==
  [][/\ (pc = "read" /\ pc' = "tell" /\ _file_offset >= Len(input_log))
          => /\ new_lines' = <<>>
             /\ handed' = handed
             /\ f_pos' = _file_offset
             /\ output_log' = output_log
     /\ (pc = "tell" /\ pc' = "lines" /\ new_lines = <<>>)
          => /\ _file_offset' = _file_offset
             /\ output_log' = output_log
     /\ (pc = "lines" /\ new_lines = <<>>)
          => /\ pc' \in {"lines", "sleep"}
             /\ _file_offset' = _file_offset
             /\ output_log' = output_log
             /\ row_count' = row_count]_vars

C25_Witness ==
  /\ pc = "tell"
  /\ new_lines = <<>>
  /\ _file_offset > 0
  /\ _file_offset = Len(input_log)
  /\ f_pos = _file_offset
  /\ output_log /= <<>>

(* C26: with the producer appending complete lines at any moment of a      *)
(* poll, the offset a poll records is the end of the bytes the polls have  *)
(* read: the lines the polls returned, put end to end, are exactly the     *)
(* bytes of the input log before the cursor, each returned line is one     *)
(* complete appended line, and no line is skipped or returned twice.       *)
C26_OffsetIsEndOfBytesRead ==
  /\ Flatten(handed) = SubSeq(input_log, 1, IF pc = "tell" THEN f_pos ELSE _file_offset)
  /\ \A i \in 1..Len(handed) : handed[i] \in CleanLines
  /\ pc = "tell" => _file_offset + Len(Flatten(new_lines)) = f_pos
  /\ CaughtUp => Len(handed) = written

C26_Witness ==
  /\ pc = "lines"
  /\ Len(handed) = 2
  /\ _file_offset = Len(Flatten(handed))
  /\ Len(input_log) > _file_offset
  /\ Len(new_lines) = 2

(* C27: in a run in which no poll of the engine raises, after the producer *)
(* has been started anew every reading found in the new input file is      *)
(* eventually in the output log, and once the new file exists the cursor   *)
(* comes to lie within it.                                                 *)
C27_RestartedProducerIsFollowed ==
  [](pc /= "crashed") =>
    /\ \A b \in WellFormedBodies :
         (restarts = MaxRestarts /\ Occurrences(input_log, b) > 0)
           ~> (Occurrences(OutputStamps, BodyRow(b).timestamp) > 0)
    /\ (restarts = MaxRestarts /\ input_exists) ~> (_file_offset <= Len(input_log))

-----------------------------------------------------------------------------
(* The dashboard's reader of the output log: dashboard.py load_data and    *)
(* the head of main.                                                       *)

\* dashboard.py line 401
MAX_ROWS == 60

\* The longest of the short output logs load_data is applied to.
MaxLogLines == 3

\* pandas' missing instant, and the instant number n.
NaT == [nat |-> TRUE, at |-> 0]
At(n) == [nat |-> FALSE, at |-> n]

\* The instants the timestamp texts of the model stand for.
Instant(text) ==
  CASE text = "T1" -> At(1)
    [] text = "T2" -> At(2)
    [] text = "T3" -> At(3)
    [] text = "T4" -> At(4)

\* line 433: pd.to_datetime(..., errors="coerce"): the instant of a text
\* that is a date, NaT for any other value, the empty text included.
to_datetime(v) ==
  IF v.k = "str" /\ v.s \in {"T1", "T2", "T3", "T4"} THEN Instant(v.s) ELSE NaT

\* line 420: line.strip() on a line of the output log.
strip_line(l) ==
  LET keep == {i \in 1..Len(l) : l[i] /= OUT_LB}
  IN IF keep = {} THEN <<>>
     ELSE SubSeq(l, CHOOSE i \in keep : \A j \in keep : i <= j,
                    CHOOSE i \in keep : \A j \in keep : i >= j)

\* json.loads succeeds on the whole text of one object (line 423).
Parses(t) == Len(t) = 2 /\ t[1] /= OUT_CLOSE /\ t[1] /= OUT_LB /\ t[2] = OUT_CLOSE

\* lines 419-425: blank lines and lines json.loads rejects are passed over.
ParsedRows(lines) ==
  LET texts == [i \in 1..Len(lines) |-> strip_line(lines[i])]
      kept == SelectSeq(texts, LAMBDA t : t /= <<>> /\ Parses(t))
  IN [i \in 1..Len(kept) |-> kept[i][1]]

\* The order of sort_values: ascending instants, and the rows without an
\* instant last (na_position="last").
InstantOrder == <<At(1), At(2), At(3), At(4), NaT>>

\* line 434: df.sort_values("timestamp"): the rows of the first instant
\* of the order, then those of the second, and so on.
sort_values(rows) ==
  LET of(n) == SelectSeq(rows, LAMBDA r : r.timestamp = InstantOrder[n])
  IN of(1) \o of(2) \o of(3) \o of(4) \o of(5)

\* line 434: .tail(n)
tail(rows, n) ==
  IF Len(rows) <= n THEN rows ELSE SubSeq(rows, Len(rows) - n + 1, Len(rows))

\* load_data() over the text of the output log. A missing file and a file
\* without a parseable line both give the empty table (lines 413-414 and
\* 429-430).
load_data(content) ==
  LET rows == ParsedRows(OutputLines(content, <<>>))
  IN IF rows = <<>> THEN <<>>
     ELSE tail(sort_values([i \in 1..Len(rows) |->
                              [rows[i] EXCEPT !.timestamp = to_datetime(@)]]),
               MAX_ROWS)

\* lines 796-807 of main(): the table is loaded; the waiting screen is shown
\* for an empty table, and otherwise the last row is the current reading.
DashboardMain ==
  /\ ~loaded
  /\ loaded' = TRUE
  /\ \E table \in {load_data(output_file)} :
       /\ df' = table
       /\ latest' = IF table = <<>> THEN <<>> ELSE <<table[Len(table)]>>
  /\ UNCHANGED producer_vars
  /\ UNCHANGED engine_vars
  /\ UNCHANGED classifier_vars

\* The records found in the output logs: the enriched record of a reading
\* with each of three timestamps, and of a reading without a timestamp.
LoadRecords ==
  {_transform_row([BodyRow("r1") EXCEPT !.timestamp = Str(t)]) : t \in {"T1", "T2", "T3"}}
    \cup {_transform_row(Restrict(BodyRow("r1"), DOMAIN BodyRow("r1") \ {"timestamp"}))}

\* The lines of the output logs: whole records, a record cut short before
\* its closing brace, and a blank line.
LoadLines ==
  {written_text(r) : r \in LoadRecords}
    \cup {<<_transform_row(BodyRow("r1")), OUT_LB>>, <<OUT_LB>>}

\* n times the text l.
Repeat(l, n) == [i \in 1..(n * Len(l)) |-> l[((i - 1) % Len(l)) + 1]]

ShortLogs ==
  UNION {{Flatten(ls) : ls \in [1..n -> LoadLines]} : n \in 0..MaxLogLines}

\* Short logs, and the same logs after MAX_ROWS - 1 records of instant T2.
LoadContents ==
  ShortLogs \cup
    {Repeat(written_text(_transform_row([BodyRow("r1") EXCEPT !.timestamp = Str("T2")])),
            MAX_ROWS - 1) \o log : log \in ShortLogs}

InitLoad ==
  /\ input_exists = FALSE
  /\ input_log = <<>>
  /\ pending = <<>>
  /\ written = 0
  /\ restarts = 0
  /\ stop_requested = FALSE
  /\ pc = "exists"
  /\ _file_offset = 0
  /\ f_pos = 0
  /\ new_lines = <<>>
  /\ row_count = 0
  /\ output_log = <<>>
  /\ output_file \in LoadContents
  /\ malformed = <<>>
  /\ handed = <<>>
  /\ engine_runs = 1
  /\ classify_in = [aqi |-> Num(0, FALSE), temp |-> Num(0, FALSE), humid |-> Num(0, FALSE)]
  /\ classify_out = NotApplied
  /\ row_in = [timestamp |-> Str("")]
  /\ row_out = <<>>
  /\ InitDashboard

NextLoad == DashboardMain

SpecLoad == InitLoad /\ [][NextLoad]_vars

\* The instants of the rows of a table that have one.
InstantsOf(rows) ==
  {rows[i].timestamp.at : i \in {j \in 1..Len(rows) : ~rows[j].timestamp.nat}}

\* The rows load_data finds in the output log, their timestamps read.
RowsOfLog ==
  LET rows == ParsedRows(OutputLines(output_file, <<>>))
  IN [i \in 1..Len(rows) |-> [rows[i] EXCEPT !.timestamp = to_datetime(@)]]

(* C28: once the dashboard has loaded the output log, the table is empty   *)
(* when the log holds no parseable line; otherwise it holds at least one   *)
(* and at most MAX_ROWS rows, each a row of the log, in ascending order of *)
(* their instants, the row shown as the current reading is its last row,   *)
(* and if any row of the log has an instant, the last row carries the      *)
(* latest instant of the log: a row whose timestamp is the empty text does *)
(* not take that place.                                                    *)
C28_LoadDataShowsLatest ==
  loaded =>
    /\ RowsOfLog = <<>> => df = <<>> /\ latest = <<>>
    /\ RowsOfLog /= <<>> =>
         /\ Len(df) \in 1..MAX_ROWS
         /\ \A i \in 1..Len(df) : \E j \in 1..Len(RowsOfLog) : df[i] = RowsOfLog[j]
         /\ \A i, j \in 1..Len(df) :
              (i < j /\ ~df[i].timestamp.nat /\ ~df[j].timestamp.nat)
                => df[i].timestamp.at <= df[j].timestamp.at
         /\ latest = <<df[Len(df)]>>
         /\ InstantsOf(RowsOfLog) /= {} =>
              /\ ~df[Len(df)].timestamp.nat
              /\ \A t \in InstantsOf(RowsOfLog) : t <= df[Len(df)].timestamp.at

\* The types of the alerts of a list.
AlertTypes(alerts) == {alerts[i].type : i \in 1..Len(alerts)}

(* C29: for every triple the alert list of the dashboard is not empty; it  *)
(* is the single all-clear alert exactly when the risk level is safe; it   *)
(* holds a danger alert exactly when the risk level is danger; at risk     *)
(* level warn it holds warn alerts only; and no two of its alerts are      *)
(* about the same dimension.                                               *)
C29_AlertsAgreeWithRiskLevel ==
  DashboardApplied =>
    LET alerts == classify_out.alerts
        level == classify_out.risk_level
    IN /\ alerts /= <<>>
       /\ (alerts = <<Alert("safe", "all", "ALL CLEAR")>>) <=> (level = "safe")
       /\ ("safe" \in AlertTypes(alerts)) <=> (level = "safe")
       /\ ("danger" \in AlertTypes(alerts)) <=> (level = "danger")
       /\ (level = "warn") => AlertTypes(alerts) = {"warn"}
       /\ \A i, j \in 1..Len(alerts) : alerts[i].about = alerts[j].about => i = j
       /\ Len(alerts) <= 3

C29_Witness ==
  /\ DashboardApplied
  /\ classify_in = Triple(Whole(150), Num(40, TRUE), Whole(80))
  /\ classify_out.risk_level = "danger"
  /\ [i \in 1..Len(classify_out.alerts) |-> classify_out.alerts[i].type]
       = <<"warn", "danger", "warn">>

====
